---- MODULE Spec2Model ----
(***************************************************************************)
(* Drone telemetry dashboard: the bounded history store (DataStore), the   *)
(* websocket receiving thread, the refresh callback process_queue, two     *)
(* view callbacks, and the transmitter's battery simulation.               *)
(*                                                                         *)
(* Readings are tokens <<field, k>> ("the reading of that field in the     *)
(* k-th message"), so that a value landing in the wrong series or at the   *)
(* wrong index is visible.  Voltages of the generator are in millivolts.   *)
(***************************************************************************)
EXTENDS Integers, Sequences, FiniteSets, TLC

VARIABLES
    data_store,   \* the module-level DataStore instance (record of its attributes)
    data_queue,   \* queue.Queue between the receiving thread and process_queue
    wire,         \* frames sent by the peer and not yet returned by recv()
    ws,           \* websocket_client: position, requested sleep, seconds slept
    loc,          \* per process_queue invocation: position, argument and
                  \* locals; tick is history, the queue as the interval fired
    rd,           \* view callbacks: position and values read so far
    view,         \* what the callbacks last returned to the page
    sent,         \* history: frames the peer has sent, in order
    received,     \* history: objects put on data_queue, in order
    calls,        \* history: arguments of add_data, in order of the calls
    attempts,     \* history: number of websockets.connect calls
    failures,     \* history: number of exceptions caught at line 81
    drone,        \* DroneDataGenerator instance of the transmitter
    emitted,      \* the record last returned by generate_data
    drawn,        \* history: the random values drawn by the last generate_data
    server        \* transmitter: per connection, the position of transmit_data,
                  \* its generator, its sample and the frames sent so far

vars == <<data_store, data_queue, wire, ws, loc, rd, view, sent, received,
          calls, attempts, failures, drone, emitted, drawn, server>>

(***************************************************************************)
(* Bounds                                                                  *)
(***************************************************************************)
MaxFrames == 4
MaxPeerFrames == 3
MaxParFrames == 2
ParCapacity == 1
MaxFailures == 3
StoreCapacity == 2
MaxGenTicks == 365
MaxYawTicks == 361
MaxDroneTicks == 3
MaxTickFrames == 1
MaxViewFrames == 1
MaxRenders == 1
MaxQueued == 2
MaxServerTicks == 3
MaxAccepts == 2

RECONNECT_DELAY == 5

\* MAX_DATA_POINTS = 100 in the program, scaled down to the bound
MAX_DATA_POINTS == StoreCapacity

None == [none |-> TRUE]
Unbuilt == [unbuilt |-> TRUE]

(***************************************************************************)
(* Messages                                                                *)
(***************************************************************************)
IsoString(k) == [fmt |-> "iso", t |-> k]
BadString(k) == [fmt |-> "text", t |-> k]

fromisoformat(s) ==
    IF s.fmt = "iso"
    THEN [ok |-> TRUE, val |-> [datetime |-> s.t]]
    ELSE [ok |-> FALSE, exc |-> "ValueError"]

\* the dictionary generate_data returns on the k-th tick
MkSample(k) ==
    [timestamp  |-> IsoString(k),
     battery    |-> [voltage |-> <<"voltage", k>>, percentage |-> <<"percentage", k>>],
     sensors    |-> [temperature |-> <<"temperature", k>>, altitude |-> <<"altitude", k>>],
     imu        |-> [roll |-> <<"roll", k>>, pitch |-> <<"pitch", k>>, yaw |-> <<"yaw", k>>],
     gps        |-> [latitude |-> <<"latitude", k>>, longitude |-> <<"longitude", k>>,
                     altitude |-> <<"altitude", k>>],
     connection |-> [status |-> <<"status", k>>, signal_strength |-> <<"signal_strength", k>>]]

Without(d, key) == [x \in (DOMAIN d) \ {key} |-> d[x]]

json_dumps(obj) == [valid |-> TRUE, body |-> obj]
InvalidJson == [valid |-> FALSE]

json_loads(s) ==
    IF s.valid
    THEN [ok |-> TRUE, val |-> s.body]
    ELSE [ok |-> FALSE, exc |-> "JSONDecodeError"]

FrameKinds == {"ok", "no_imu", "bad_timestamp", "invalid_json"}

\* the k-th frame on the wire, of the given kind
Frame(k, kind) ==
    CASE kind = "ok"            -> json_dumps(MkSample(k))
      [] kind = "no_imu"        -> json_dumps(Without(MkSample(k), "imu"))
      [] kind = "bad_timestamp" -> json_dumps([MkSample(k) EXCEPT !.timestamp = BadString(k)])
      [] kind = "invalid_json"  -> InvalidJson
      [] kind = "attitude"      ->
           json_dumps([MkSample(k) EXCEPT
                          !.imu = [roll |-> 0, pitch |-> 0, yaw |-> 90 * k]])

(***************************************************************************)
(* DataStore                                                               *)
(***************************************************************************)
SeriesNames == <<"timestamps", "battery_voltage", "temperature", "altitude", "roll",
                 "pitch", "yaw", "latitude", "longitude", "connection_strength">>

NSeries == Len(SeriesNames)

\* data[group][key] appended to the i-th series, i >= 2
Path(i) ==
    CASE i = 2  -> <<"battery", "voltage">>
      [] i = 3  -> <<"sensors", "temperature">>
      [] i = 4  -> <<"sensors", "altitude">>
      [] i = 5  -> <<"imu", "roll">>
      [] i = 6  -> <<"imu", "pitch">>
      [] i = 7  -> <<"imu", "yaw">>
      [] i = 8  -> <<"gps", "latitude">>
      [] i = 9  -> <<"gps", "longitude">>
      [] i = 10 -> <<"connection", "signal_strength">>

DataStore__init__(max_points) ==
    [max_points |-> max_points,
     timestamps |-> <<>>, battery_voltage |-> <<>>, temperature |-> <<>>,
     altitude |-> <<>>, roll |-> <<>>, pitch |-> <<>>, yaw |-> <<>>,
     latitude |-> <<>>, longitude |-> <<>>, connection_strength |-> <<>>,
     latest_data |-> None]

Max(a, b) == IF a >= b THEN a ELSE b
Min(a, b) == IF a <= b THEN a ELSE b

\* s[:n]: what is kept when the newest entries are cut instead of the oldest
PySliceFrom_KeepOldest(s, start) == SubSeq(s, 1, Min(Len(s), Max(0 - start, 0)))

\* Python's s[start:] for a list s
PySliceFrom(s, start) ==
    LET lo == IF start < 0
              THEN (IF Len(s) + start < 0 THEN 0 ELSE Len(s) + start)
              ELSE (IF start > Len(s) THEN Len(s) ELSE start)
    IN  SubSeq(s, lo + 1, Len(s))

HasPath(data, p) == p[1] \in DOMAIN data /\ p[2] \in DOMAIN data[p[1]]

IdleLocals == [pc |-> "idle", n |-> 0, data |-> None, timestamp |-> None,
               i |-> 0, exc |-> "none", tick |-> None]

Raise(st, l, e) == [st |-> st, l |-> [l EXCEPT !.pc = "raise", !.exc = e]]

AppendAt(st, l, v) ==
    [st |-> [st EXCEPT ![SeriesNames[l.i]] = Append(@, v)],
     l  |-> IF l.i < NSeries THEN [l EXCEPT !.i = l.i + 1]
                             ELSE [l EXCEPT !.pc = "L57", !.i = 0]]

\* one step of add_data(l.data) on the store st, from position l.pc: one
\* statement of lines 41-67 at a time
add_data(st, l) ==
    CASE l.pc = "L41" ->
           [st |-> [st EXCEPT !.latest_data = l.data], l |-> [l EXCEPT !.pc = "L42"]]
      [] l.pc = "L42" ->
           IF "timestamp" \notin DOMAIN l.data
           THEN Raise(st, l, "KeyError")
           ELSE LET r == fromisoformat(l.data.timestamp)
                IN  IF r.ok
                    THEN [st |-> st, l |-> [l EXCEPT !.pc = "append", !.i = 1,
                                                     !.timestamp = r.val]]
                    ELSE Raise(st, l, r.exc)
      [] l.pc = "append" ->
           IF l.i = 1
           THEN AppendAt(st, l, l.timestamp)
           ELSE IF HasPath(l.data, Path(l.i))
                THEN AppendAt(st, l, l.data[Path(l.i)[1]][Path(l.i)[2]])
                ELSE Raise(st, l, "KeyError")
      [] l.pc = "L57" ->
           IF Len(st.timestamps) > st.max_points
           THEN [st |-> st, l |-> [l EXCEPT !.pc = "trim", !.i = 1]]
           ELSE [st |-> st, l |-> [l EXCEPT !.pc = "return"]]
      [] l.pc = "trim" ->
           [st |-> [st EXCEPT ![SeriesNames[l.i]] = PySliceFrom(@, -st.max_points)],
            l  |-> IF l.i < NSeries
                   THEN [l EXCEPT !.i = l.i + 1]
                   ELSE [l EXCEPT !.pc = "return", !.i = 0]]

InAddData(l) == l.pc \in {"L41", "L42", "append", "L57", "trim"}

(***************************************************************************)
(* process_queue: one refresh callback invocation w                        *)
(***************************************************************************)
\* the interval fires and the callback is entered with n; with track, the
\* queue of that moment is remembered for the views of the same tick
process_queue(w, N, track) ==
    /\ data_store # Unbuilt
    /\ loc[w].pc = "idle"
    /\ \E n \in N :
          loc' = [loc EXCEPT ![w] =
                     [IdleLocals EXCEPT !.pc = "L168", !.n = n,
                                        !.tick = IF track
                                                 THEN [queued |-> data_queue]
                                                 ELSE None]]
    /\ UNCHANGED <<data_store, data_queue, wire, ws, rd, view, sent, received,
                   calls, attempts, failures, drone, emitted, drawn, server>>

\* a return value one more than the argument
ReturnValue_Incremented(n) == n + 1

\* line 174: return n
ReturnValue(n) == n

\* line 174: the callback is left and its value becomes the n_intervals of the
\* interval component
Return(w) ==
    /\ loc' = [loc EXCEPT ![w] = [IdleLocals EXCEPT !.tick = loc[w].tick]]
    /\ view' = [view EXCEPT !.n_intervals = ReturnValue(loc[w].n)]

\* line 168: while not data_queue.empty()
while_not_empty(w) ==
    /\ loc[w].pc = "L168"
    /\ IF data_queue = <<>>
       THEN Return(w)
       ELSE /\ loc' = [loc EXCEPT ![w] = [@ EXCEPT !.pc = "L170"]]
            /\ UNCHANGED view
    /\ UNCHANGED <<data_store, data_queue, wire, ws, rd, sent, received,
                   calls, attempts, failures, drone, emitted, drawn, server>>

\* line 170: data = data_queue.get_nowait(); queue.Empty breaks the loop
get_nowait(w) ==
    /\ loc[w].pc = "L170"
    /\ IF data_queue = <<>>
       THEN /\ Return(w)
            /\ UNCHANGED data_queue
       ELSE /\ loc' = [loc EXCEPT ![w] = [@ EXCEPT !.pc = "L41", !.data = Head(data_queue)]]
            /\ data_queue' = Tail(data_queue)
            /\ UNCHANGED view
    /\ UNCHANGED <<data_store, wire, ws, rd, sent, received,
                   calls, attempts, failures, drone, emitted, drawn, server>>

\* what process_queue does with the outcome of a step of add_data: a return
\* goes back to the loop test, an exception other than queue.Empty leaves the
\* callback
AfterStep(l) ==
    CASE l.pc = "return" -> [IdleLocals EXCEPT !.pc = "L168", !.n = l.n,
                                               !.tick = l.tick]
      [] l.pc = "raise"  -> [IdleLocals EXCEPT !.exc = l.exc]
      [] OTHER           -> l

\* line 171: one statement of data_store.add_data(data)
add_data_statement(w) ==
    /\ InAddData(loc[w])
    /\ LET r == add_data(data_store, loc[w])
       IN  /\ data_store' = r.st
           /\ loc' = [loc EXCEPT ![w] = AfterStep(r.l)]
    /\ UNCHANGED <<data_queue, wire, ws, rd, view, sent, received,
                   attempts, failures, drone, emitted, drawn, server>>

\* line 171: one statement of add_data, the history of calls left alone
add_data_untraced(w) == add_data_statement(w) /\ UNCHANGED calls

\* line 171: data_store.add_data(data), one step at a time, with the call
\* recorded in the history
add_data_step(w) ==
    /\ add_data_statement(w)
    /\ calls' = IF loc[w].pc = "L41" THEN Append(calls, loc[w].data) ELSE calls

(***************************************************************************)
(* websocket_client and its peer                                           *)
(***************************************************************************)
\* except Exception: every exception of the loop body is one
IsException(e) == e \in {"OSError", "ConnectionClosed", "JSONDecodeError"}

\* a delay that grows with the number of failures
SleepFor_Backoff(k) == RECONNECT_DELAY * k

\* seconds asked of asyncio.sleep after the k-th failure
SleepFor(k) == RECONNECT_DELAY

\* lines 81-83, or the exception leaving websocket_client
Handler(e) ==
    IF IsException(e)
    THEN /\ ws' = [pc |-> "sleep", delay |-> SleepFor(failures + 1), slept |-> 0]
         /\ failures' = failures + 1
    ELSE /\ ws' = [ws EXCEPT !.pc = "exited"]
         /\ UNCHANGED failures

\* line 75: websockets.connect succeeds
connect ==
    /\ ws.pc = "connect"
    /\ attempts' = attempts + 1
    /\ ws' = [ws EXCEPT !.pc = "recv"]
    /\ wire' = <<>>
    /\ UNCHANGED <<data_store, data_queue, loc, rd, view, sent, received,
                   calls, failures, drone, emitted, drawn, server>>

\* line 75: websockets.connect raises
connect_refused ==
    /\ ws.pc = "connect"
    /\ failures < MaxFailures
    /\ attempts' = attempts + 1
    /\ Handler("OSError")
    /\ UNCHANGED <<data_store, data_queue, wire, loc, rd, view, sent, received,
                   calls, drone, emitted, drawn, server>>

\* lines 78-80: recv, json.loads, put; an undecodable frame raises inside the
\* async with block, which closes the connection with its unread frames
recv ==
    /\ ws.pc = "recv"
    /\ wire # <<>>
    /\ LET r == json_loads(Head(wire))
       IN  IF r.ok
           THEN /\ data_queue' = Append(data_queue, r.val)
                /\ received' = Append(received, r.val)
                /\ wire' = Tail(wire)
                /\ UNCHANGED <<ws, failures>>
           ELSE /\ Handler(r.exc)
                /\ wire' = <<>>
                /\ UNCHANGED <<data_queue, received>>
    /\ UNCHANGED <<data_store, loc, rd, view, sent, calls, attempts, drone, emitted, drawn, server>>

\* line 78: recv raises ConnectionClosed once the buffered frames are consumed
connection_closed ==
    /\ ws.pc = "recv"
    /\ wire = <<>>
    /\ failures < MaxFailures
    /\ Handler("ConnectionClosed")
    /\ UNCHANGED <<data_store, data_queue, wire, loc, rd, view, sent, received,
                   calls, attempts, drone, emitted, drawn, server>>

\* one second of asyncio.sleep(5) passes
sleep_tick ==
    /\ ws.pc = "sleep"
    /\ ws.slept < ws.delay
    /\ ws' = [ws EXCEPT !.slept = @ + 1]
    /\ UNCHANGED <<data_store, data_queue, wire, loc, rd, view, sent, received,
                   calls, attempts, failures, drone, emitted, drawn, server>>

\* asyncio.sleep returns and the outer while True loops
sleep_done ==
    /\ ws.pc = "sleep"
    /\ ws.slept >= ws.delay
    /\ ws' = [ws EXCEPT !.pc = "connect"]
    /\ UNCHANGED <<data_store, data_queue, wire, loc, rd, view, sent, received,
                   calls, attempts, failures, drone, emitted, drawn, server>>

\* lines 77-80 with a peer that has a well-formed frame ready whenever recv
\* is called: one more message is put on the queue (the histories are left
\* alone, and at most MaxQueued messages wait in the queue)
recv_from_stream ==
    /\ ws.pc = "recv"
    /\ wire = <<>>
    /\ Len(data_queue) < MaxQueued
    /\ data_queue' = Append(data_queue, json_loads(Frame(1, "ok")).val)
    /\ UNCHANGED <<data_store, wire, ws, loc, rd, view, sent, received,
                   calls, attempts, failures, drone, emitted, drawn, server>>

\* the peer at WS_SERVER sends its next frame on the open connection
transmit(kinds, budget) ==
    /\ ws.pc = "recv"
    /\ Len(sent) < budget
    /\ \E kind \in kinds :
         LET f == Frame(Len(sent) + 1, kind)
         IN  /\ wire' = Append(wire, f)
             /\ sent' = Append(sent, f)
    /\ UNCHANGED <<data_store, data_queue, ws, loc, rd, view, received,
                   calls, attempts, failures, drone, emitted, drawn, server>>

(***************************************************************************)
(* View callbacks                                                          *)
(***************************************************************************)
IdleReader == [pc |-> "idle"]

Last(s) == s[Len(s)]

\* lines 434-456: the path and current-position traces
update_gps_map ==
    /\ data_store # Unbuilt
    /\ rd.pc = "idle"
    /\ rd' = [pc |-> "L463",
              traces |-> (data_store.latest_data # None /\ Len(data_store.latitude) > 0)]
    /\ UNCHANGED <<data_store, data_queue, wire, ws, loc, view, sent, received,
                   calls, attempts, failures, drone, emitted, drawn, server>>

\* line 463: lat=data_store.latitude[-1] if data_store.latest_data else 11.064754
gps_center_lat ==
    /\ rd.pc = "L463"
    /\ IF data_store.latest_data = None
       THEN /\ rd' = [pc |-> "L464", traces |-> rd.traces, lat |-> <<"default">>]
            /\ UNCHANGED view
       ELSE IF data_store.latitude = <<>>
            THEN /\ rd' = IdleReader
                 /\ view' = [view EXCEPT !.gps = "IndexError"]
            ELSE /\ rd' = [pc |-> "L464", traces |-> rd.traces,
                           lat |-> Last(data_store.latitude)]
                 /\ UNCHANGED view
    /\ UNCHANGED <<data_store, data_queue, wire, ws, loc, sent, received,
                   calls, attempts, failures, drone, emitted, drawn, server>>

\* line 464: lon=data_store.longitude[-1] if data_store.latest_data else 77.093565
gps_center_lon ==
    /\ rd.pc = "L464"
    /\ rd' = IdleReader
    /\ view' = [view EXCEPT !.gps =
                  IF data_store.latest_data = None
                  THEN "figure"
                  ELSE IF data_store.longitude = <<>> THEN "IndexError" ELSE "figure"]
    /\ UNCHANGED <<data_store, data_queue, wire, ws, loc, sent, received,
                   calls, attempts, failures, drone, emitted, drawn, server>>

\* line 483: if data_store.latest_data is not None and len(data_store.timestamps) > 0
update_imu_chart ==
    /\ data_store # Unbuilt
    /\ rd.pc = "idle"
    /\ IF data_store.latest_data # None /\ Len(data_store.timestamps) > 0
       THEN /\ rd' = [pc |-> "L485"]
            /\ UNCHANGED view
       ELSE /\ rd' = IdleReader
            /\ view' = [view EXCEPT !.imu = <<>>]
    /\ UNCHANGED <<data_store, data_queue, wire, ws, loc, sent, received,
                   calls, attempts, failures, drone, emitted, drawn, server>>

\* line 485: time_strings = [ts.strftime(...) for ts in data_store.timestamps]
imu_time_strings ==
    /\ rd.pc = "L485"
    /\ rd' = [pc |-> "L491", lens |-> <<Len(data_store.timestamps)>>]
    /\ UNCHANGED <<data_store, data_queue, wire, ws, loc, view, sent, received,
                   calls, attempts, failures, drone, emitted, drawn, server>>

ImuTraces == <<"roll", "pitch", "yaw">>

\* lines 491, 501, 511: y=data_store.roll, y=data_store.pitch, y=data_store.yaw;
\* the figure is returned after the third
imu_trace ==
    /\ rd.pc = "L491"
    /\ LET lens == Append(rd.lens, Len(data_store[ImuTraces[Len(rd.lens)]]))
       IN  IF Len(lens) <= Len(ImuTraces)
           THEN /\ rd' = [rd EXCEPT !.lens = lens]
                /\ UNCHANGED view
           ELSE /\ rd' = IdleReader
                /\ view' = [view EXCEPT !.imu = lens]
    /\ UNCHANGED <<data_store, data_queue, wire, ws, loc, sent, received,
                   calls, attempts, failures, drone, emitted, drawn, server>>

\* lines 182-199: the view callback of the tick of invocation w, entered once
\* process_queue has returned the n_intervals it takes as input
update_connection_status(w) ==
    /\ loc[w].pc = "idle"
    /\ loc[w].tick # None
    /\ loc' = [loc EXCEPT ![w] = IdleLocals]
    /\ view' = [view EXCEPT !.status =
                  IF data_store.latest_data = None
                  THEN [text |-> "No Data"]
                  ELSE [status |-> data_store.latest_data.connection.status]]
    /\ UNCHANGED <<data_store, data_queue, wire, ws, rd, sent, received,
                   calls, attempts, failures, drone, emitted, drawn, server>>

\* lines 207-229: the text of the indicator (its colours are left out)
update_battery_indicator ==
    /\ data_store # Unbuilt
    /\ view' = [view EXCEPT !.battery =
                  IF data_store.latest_data = None
                  THEN [text |-> "No Data"]
                  ELSE [voltage |-> data_store.latest_data.battery.voltage,
                        percentage |-> data_store.latest_data.battery.percentage]]
    /\ UNCHANGED <<data_store, data_queue, wire, ws, loc, rd, sent, received,
                   calls, attempts, failures, drone, emitted, drawn, server>>

\* lines 535-586: the lengths of x and of the two y series of the chart
update_alt_temp_chart ==
    /\ data_store # Unbuilt
    /\ view' = [view EXCEPT !.alt_temp =
                  IF data_store.latest_data # None /\ Len(data_store.timestamps) > 0
                  THEN <<Len(data_store.timestamps), Len(data_store.altitude),
                         Len(data_store.temperature)>>
                  ELSE <<>>]
    /\ UNCHANGED <<data_store, data_queue, wire, ws, loc, rd, sent, received,
                   calls, attempts, failures, drone, emitted, drawn, server>>

\* a telemetry callback that consumes the sample it shows
update_telemetry_data_Consuming ==
    /\ data_store # Unbuilt
    /\ view' = [view EXCEPT !.telemetry =
                  IF data_store.latest_data = None
                  THEN [text |-> "No data received yet."]
                  ELSE data_store.latest_data]
    /\ data_store' = [data_store EXCEPT !.latest_data = None]
    /\ UNCHANGED <<data_queue, wire, ws, loc, rd, sent, received,
                   calls, attempts, failures, drone, emitted, drawn, server>>

\* lines 593-646: the values shown are those of latest_data
update_telemetry_data ==
    /\ data_store # Unbuilt
    /\ view' = [view EXCEPT !.telemetry =
                  IF data_store.latest_data = None
                  THEN [text |-> "No data received yet."]
                  ELSE data_store.latest_data]
    /\ data_store' = data_store
    /\ UNCHANGED <<data_queue, wire, ws, loc, rd, sent, received,
                   calls, attempts, failures, drone, emitted, drawn, server>>

(***************************************************************************)
(* update_orientation_display.  Lengths are in hundredths.  An angle in    *)
(* radians is counted in quarter turns (pi/2), so the angle of a sample    *)
(* here is a multiple of 90 degrees and theta / 2.0 is a multiple of pi/4. *)
(* A number is the triple <<r, s, e>> standing for (r + s*sqrt(2)) / 2^e,  *)
(* which holds the cosines and sines of these half angles and every sum    *)
(* and product of them exactly.                                            *)
(***************************************************************************)
Num(n) == <<n, 0, 0>>

RECURSIVE Lowest(_)
Lowest(x) ==
    IF x[3] > 0 /\ x[1] % 2 = 0 /\ x[2] % 2 = 0
    THEN Lowest(<<x[1] \div 2, x[2] \div 2, x[3] - 1>>)
    ELSE x

Plus(x, y) ==
    LET e == Max(x[3], y[3])
        fx == 2 ^ (e - x[3])
        fy == 2 ^ (e - y[3])
    IN  Lowest(<<fx * x[1] + fy * y[1], fx * x[2] + fy * y[2], e>>)

Neg(x) == <<-x[1], -x[2], x[3]>>

Minus(x, y) == Plus(x, Neg(y))

Times(x, y) ==
    Lowest(<<x[1] * y[1] + 2 * x[2] * y[2], x[1] * y[2] + x[2] * y[1], x[3] + y[3]>>)

\* np.cos and np.sin of k * pi/4
np_cos(k) ==
    CASE k % 8 = 0 -> Num(1)
      [] k % 8 \in {1, 7} -> <<0, 1, 1>>
      [] k % 8 \in {2, 6} -> Num(0)
      [] k % 8 \in {3, 5} -> <<0, -1, 1>>
      [] k % 8 = 4 -> Num(-1)

np_sin(k) == np_cos(k + 6)

\* np.sqrt of a perfect square
np_sqrt(n) == CHOOSE k \in 0 .. n : k * k = n

\* lines 250-252: degrees * np.pi / 180
ToRadians(degrees) == degrees \div 90

\* np.dot of two vectors of three numbers
Dot3(u, v) == Plus(Plus(Times(u[1], v[1]), Times(u[2], v[2])), Times(u[3], v[3]))

\* A.dot(B) for 3x3 matrices
MatDot(A, B) ==
    LET Entry(i, j) == Dot3(A[i], <<B[1][j], B[2][j], B[3][j]>>)
    IN  << <<Entry(1, 1), Entry(1, 2), Entry(1, 3)>>,
           <<Entry(2, 1), Entry(2, 2), Entry(2, 3)>>,
           <<Entry(3, 1), Entry(3, 2), Entry(3, 3)>> >>

\* M.T
Transposed(M) ==
    << <<M[1][1], M[2][1], M[3][1]>>,
       <<M[1][2], M[2][2], M[3][2]>>,
       <<M[1][3], M[2][3], M[3][3]>> >>

\* the mirror image of rotation_matrix: the rotation taken clockwise
rotation_matrix_Clockwise(axis, theta) ==
    LET norm == np_sqrt(axis[1] * axis[1] + axis[2] * axis[2] + axis[3] * axis[3])
        unit == [i \in 1 .. 3 |-> axis[i] \div norm]
        a == np_cos(theta)
        b == Times(Num(unit[1]), np_sin(theta))
        c == Times(Num(unit[2]), np_sin(theta))
        d == Times(Num(unit[3]), np_sin(theta))
        aa == Times(a, a)
        bb == Times(b, b)
        cc == Times(c, c)
        dd == Times(d, d)
        bc == Times(b, c)
        ad == Times(a, d)
        ac == Times(a, c)
        ab == Times(a, b)
        bd == Times(b, d)
        cd == Times(c, d)
        two == Num(2)
    IN  << <<Minus(Minus(Plus(aa, bb), cc), dd), Times(two, Plus(bc, ad)),
             Times(two, Minus(bd, ac))>>,
           <<Times(two, Minus(bc, ad)), Minus(Minus(Plus(aa, cc), bb), dd),
             Times(two, Plus(cd, ab))>>,
           <<Times(two, Plus(bd, ac)), Times(two, Minus(cd, ab)),
             Minus(Minus(Plus(aa, dd), bb), cc)>> >>

\* lines 255-267; theta / 2.0 of theta quarter turns is theta eighths of a turn
rotation_matrix(axis, theta) ==
    LET norm == np_sqrt(axis[1] * axis[1] + axis[2] * axis[2] + axis[3] * axis[3])
        unit == [i \in 1 .. 3 |-> axis[i] \div norm]
        a == np_cos(theta)
        b == Times(Num(-unit[1]), np_sin(theta))
        c == Times(Num(-unit[2]), np_sin(theta))
        d == Times(Num(-unit[3]), np_sin(theta))
        aa == Times(a, a)
        bb == Times(b, b)
        cc == Times(c, c)
        dd == Times(d, d)
        bc == Times(b, c)
        ad == Times(a, d)
        ac == Times(a, c)
        ab == Times(a, b)
        bd == Times(b, d)
        cd == Times(c, d)
        two == Num(2)
    IN  << <<Minus(Minus(Plus(aa, bb), cc), dd), Times(two, Plus(bc, ad)),
             Times(two, Minus(bd, ac))>>,
           <<Times(two, Minus(bc, ad)), Minus(Minus(Plus(aa, cc), bb), dd),
             Times(two, Plus(cd, ab))>>,
           <<Times(two, Plus(bd, ac)), Times(two, Minus(cd, ab)),
             Minus(Minus(Plus(aa, dd), bb), cc)>> >>

\* the product taken in the opposite order
ComposeR_XYZ(R_z, R_y, R_x) == MatDot(MatDot(R_x, R_y), R_z)

\* line 273: R = R_z.dot(R_y).dot(R_x)
ComposeR(R_z, R_y, R_x) == MatDot(MatDot(R_z, R_y), R_x)

\* lines 270-273
PoseR(roll, pitch, yaw) ==
    ComposeR(rotation_matrix(<<0, 0, 75>>, yaw),
             rotation_matrix(<<0, 75, 0>>, pitch),
             rotation_matrix(<<75, 0, 0>>, roll))

\* lines 277, 281, 294-295, 317-318, 344
drone_size == 80
body_size == 24
arm_length == drone_size
thickness == 5
ring_radius == 96
ring_segments == 36
axis_length == 60

Point(x, y, z) == <<Num(x), Num(y), Num(z)>>

\* lines 282-291
body_points ==
    << Point(body_size, body_size, 5), Point(body_size, -body_size, 5),
       Point(-body_size, -body_size, 5), Point(-body_size, body_size, 5),
       Point(body_size, body_size, -5), Point(body_size, -body_size, -5),
       Point(-body_size, -body_size, -5), Point(-body_size, body_size, -5) >>

\* lines 298-313
arm_front ==
    << Point(0, 0, thickness), Point(0, 0, -thickness),
       Point(0, arm_length, thickness), Point(0, arm_length, -thickness) >>

arm_back ==
    << Point(0, 0, thickness), Point(0, 0, -thickness),
       Point(0, -arm_length, thickness), Point(0, -arm_length, -thickness) >>

arm_right ==
    << Point(0, 0, thickness), Point(0, 0, -thickness),
       Point(arm_length, 0, thickness), Point(arm_length, 0, -thickness) >>

arm_left ==
    << Point(0, 0, thickness), Point(0, 0, -thickness),
       Point(-arm_length, 0, thickness), Point(-arm_length, 0, -thickness) >>

\* lines 319-322: point i of the ring, its cosine and sine kept as terms
ring_points ==
    [k \in 1 .. ring_segments + 1 |->
        <<[times |-> ring_radius, cos |-> k - 1, of |-> ring_segments],
          [times |-> ring_radius, sin |-> k - 1, of |-> ring_segments],
          Num(0)>>]

\* np.dot(points, M): each row of points times M
PointsDot(points, M) ==
    [k \in 1 .. Len(points) |->
        [j \in 1 .. 3 |-> Dot3(points[k], <<M[1][j], M[2][j], M[3][j]>>)]]

\* lines 346-360: the two reference axes, drawn from literal coordinates
ReferenceAxes ==
    [forward |-> <<Point(0, 0, 0), Point(0, axis_length, 0)>>,
     right |-> <<Point(0, 0, 0), Point(axis_length, 0, 0)>>]

\* the figure with the reference axes turned with the drone
OrientationFigure_AxesTurned(R) ==
    [body |-> PointsDot(body_points, Transposed(R)),
     arm_front |-> PointsDot(arm_front, Transposed(R)),
     arm_back |-> PointsDot(arm_back, Transposed(R)),
     arm_right |-> PointsDot(arm_right, Transposed(R)),
     arm_left |-> PointsDot(arm_left, Transposed(R)),
     ring |-> ring_points,
     forward |-> PointsDot(ReferenceAxes.forward, Transposed(R)),
     right |-> PointsDot(ReferenceAxes.right, Transposed(R))]

\* lines 325-408: the vertices of the traces and meshes of the figure
OrientationFigure(R) ==
    [body |-> PointsDot(body_points, Transposed(R)),
     arm_front |-> PointsDot(arm_front, Transposed(R)),
     arm_back |-> PointsDot(arm_back, Transposed(R)),
     arm_right |-> PointsDot(arm_right, Transposed(R)),
     arm_left |-> PointsDot(arm_left, Transposed(R)),
     ring |-> ring_points,
     forward |-> ReferenceAxes.forward,
     right |-> ReferenceAxes.right]

\* lines 237-247: the figure with no trace
EmptyFigure == [empty |-> TRUE]

\* lines 236-424
update_orientation_display ==
    /\ data_store # Unbuilt
    /\ view' = [view EXCEPT !.orientation =
                  IF data_store.latest_data = None
                  THEN EmptyFigure
                  ELSE LET imu == data_store.latest_data.imu
                       IN  OrientationFigure(PoseR(ToRadians(imu.roll),
                                                   ToRadians(imu.pitch),
                                                   ToRadians(imu.yaw)))]
    /\ UNCHANGED <<data_store, data_queue, wire, ws, loc, rd, sent, received,
                   calls, attempts, failures, drone, emitted, drawn, server>>

(***************************************************************************)
(* DroneDataGenerator.  Voltages are in millivolts, the temperature in     *)
(* hundredths of a degree Celsius, yaw in thousandths of a degree and      *)
(* time_offset in ticks of UPDATE_INTERVAL.  The fields computed with      *)
(* math.sin and math.cos are kept as terms: the wave, its phase and the    *)
(* noise added to it.                                                      *)
(***************************************************************************)
BATTERY_MIN == 8000
BATTERY_MAX == 12000
battery_drain_rate == 1
FULL_TURN == 360000
YAW_RATE == 1000

\* random.uniform(-0.01, 0.01): its two ends
VoltageNoise == {-10, 10}

connection_states == <<"Excellent", "Good", "Fair", "Poor", "No Signal">>

\* lines 13-33
DroneDataGenerator__init__ ==
    [battery_voltage   |-> 12000,
     temperature       |-> 2500,
     altitude          |-> [fn |-> "const", base |-> 100, amp |-> 0, div |-> 1, t |-> 0, noise |-> 0],
     latitude          |-> [start |-> "37.7749", fn |-> "sin", div |-> 20, terms |-> 0],
     longitude         |-> [start |-> "-122.4194", fn |-> "cos", div |-> 20, terms |-> 0],
     roll              |-> [fn |-> "const", base |-> 0, amp |-> 0, div |-> 1, t |-> 0, noise |-> 0],
     pitch             |-> [fn |-> "const", base |-> 0, amp |-> 0, div |-> 1, t |-> 0, noise |-> 0],
     yaw               |-> 0,
     connection_health |-> "Excellent",
     time_offset       |-> 0]

\* the clamp without its upper end
Clamp_NoCeiling(v) == Max(BATTERY_MIN, v)

\* line 43: max(8.0, min(12.0, self.battery_voltage))
Clamp(v) == Max(BATTERY_MIN, Min(BATTERY_MAX, v))

\* round(n / d) to the nearest integer, ties to even, for n >= 0 and d > 0
RoundDiv(n, d) ==
    LET q == n \div d
        r == n % d
    IN  IF 2 * r < d THEN q
        ELSE IF 2 * r > d THEN q + 1
        ELSE IF q % 2 = 0 THEN q ELSE q + 1

\* round(x, ndigits) of a field kept as a term
Rounded(x, ndigits) == [round |-> ndigits, of |-> x]

\* line 73: round(self.battery_voltage, 2), in hundredths of a volt
RoundedVoltage(v) == RoundDiv(v, 10)

\* the percentage computed from the voltage as it is emitted
Percentage_OfRounded(v) == RoundDiv(RoundedVoltage(v) * 10 - BATTERY_MIN, 4)

\* line 74: round((self.battery_voltage - 8.0) / 4.0 * 100, 1), in tenths of a percent
Percentage(v) == RoundDiv(v - BATTERY_MIN, 4)

\* a table with two entries exchanged
SignalStrength_Swapped(status) ==
    CASE status = "Excellent" -> 95
      [] status = "Good"      -> 50
      [] status = "Fair"      -> 75
      [] status = "Poor"      -> 25
      [] status = "No Signal" -> 0
      [] OTHER                -> 0

\* lines 96-105: _get_signal_strength
SignalStrength(status) ==
    CASE status = "Excellent" -> 95
      [] status = "Good"      -> 75
      [] status = "Fair"      -> 50
      [] status = "Poor"      -> 25
      [] status = "No Signal" -> 0
      [] OTHER                -> 0

\* the state update that keeps the voltage as it is shown
Advance_KeepRounded(d, z) ==
    LET t == d.time_offset + 1
    IN  [battery_voltage   |-> RoundedVoltage(Clamp(d.battery_voltage - battery_drain_rate + z.v)) * 10,
         temperature       |-> d.temperature + z.temp,
         roll              |-> [fn |-> "sin", base |-> 0, amp |-> 15, div |-> 5, t |-> t, noise |-> z.roll],
         pitch             |-> [fn |-> "cos", base |-> 0, amp |-> 10, div |-> 7, t |-> t, noise |-> z.pitch],
         yaw               |-> (d.yaw + YAW_RATE + z.yaw) % FULL_TURN,
         altitude          |-> [fn |-> "sin", base |-> 100, amp |-> 10, div |-> 15, t |-> t, noise |-> z.alt],
         latitude          |-> [d.latitude EXCEPT !.terms = t],
         longitude         |-> [d.longitude EXCEPT !.terms = t],
         connection_health |-> IF z.resample THEN z.pick ELSE d.connection_health,
         time_offset       |-> t]

\* lines 37-67: the generator state after a tick that draws the values z
Advance(d, z) ==
    LET t == d.time_offset + 1
    IN  [battery_voltage   |-> Clamp(d.battery_voltage - battery_drain_rate + z.v),
         temperature       |-> d.temperature + z.temp,
         roll              |-> [fn |-> "sin", base |-> 0, amp |-> 15, div |-> 5, t |-> t, noise |-> z.roll],
         pitch             |-> [fn |-> "cos", base |-> 0, amp |-> 10, div |-> 7, t |-> t, noise |-> z.pitch],
         yaw               |-> (d.yaw + YAW_RATE + z.yaw) % FULL_TURN,
         altitude          |-> [fn |-> "sin", base |-> 100, amp |-> 10, div |-> 15, t |-> t, noise |-> z.alt],
         latitude          |-> [d.latitude EXCEPT !.terms = t],
         longitude         |-> [d.longitude EXCEPT !.terms = t],
         connection_health |-> IF z.resample THEN z.pick ELSE d.connection_health,
         time_offset       |-> t]

\* lines 70-94: the dictionary returned; the timestamp is the clock reading
\* of the tick
Sample(d) ==
    [timestamp  |-> IsoString(d.time_offset),
     battery    |-> [voltage |-> RoundedVoltage(d.battery_voltage),
                     percentage |-> Percentage(d.battery_voltage)],
     sensors    |-> [temperature |-> RoundDiv(d.temperature, 10),
                     altitude |-> Rounded(d.altitude, 1)],
     imu        |-> [roll |-> Rounded(d.roll, 2), pitch |-> Rounded(d.pitch, 2),
                     yaw |-> RoundDiv(d.yaw, 10)],
     gps        |-> [latitude |-> Rounded(d.latitude, 6),
                     longitude |-> Rounded(d.longitude, 6),
                     altitude |-> Rounded(d.altitude, 1)],
     connection |-> [status |-> d.connection_health,
                     signal_strength |-> SignalStrength(d.connection_health)]]

\* the values one tick may draw, given a set for each random call
Draws(N, d) ==
    {[v |-> v, temp |-> te, roll |-> ro, pitch |-> pi, yaw |-> ya, alt |-> al,
      resample |-> re, pick |-> IF re THEN connection_states[c] ELSE d.connection_health] :
        v \in N.v, te \in N.temp, ro \in N.roll, pi \in N.pitch, ya \in N.yaw,
        al \in N.alt, re \in N.resample, c \in 1 .. Len(connection_states)}

\* generate_data, lines 35-94, with the random values drawn from the sets N
generate_data(N, ticks) ==
    /\ drone.time_offset < ticks
    /\ \E z \in Draws(N, drone) :
          /\ drone' = Advance(drone, z)
          /\ emitted' = Sample(drone')
          /\ drawn' = z
    /\ UNCHANGED <<data_store, data_queue, wire, ws, loc, rd, view, sent,
                   received, calls, attempts, failures, server>>

(***************************************************************************)
(* transmit_data: one handler per client connection of the transmitter     *)
(***************************************************************************)
Connections == {1, 2}

\* accepted is history: the connections this client has made so far
NoHandler ==
    [pc |-> "closed", drone |-> None, data |-> None, out |-> <<>>, accepted |-> 0]

\* a handler that takes over the generator of a connection already open
NewGenerator_Shared(c) ==
    IF \E d \in Connections \ {c} : server[d].pc # "closed"
    THEN server[CHOOSE d \in Connections \ {c} : server[d].pc # "closed"].drone
    ELSE DroneDataGenerator__init__

\* line 109: drone = DroneDataGenerator()
NewGenerator(c) == DroneDataGenerator__init__

\* lines 107-112: a client connects and its handler starts
transmit_data(c) ==
    /\ server[c].pc = "closed"
    /\ server[c].accepted < MaxAccepts
    /\ server' = [server EXCEPT ![c] =
                     [pc |-> "L114", drone |-> NewGenerator(c), data |-> None,
                      out |-> <<>>, accepted |-> server[c].accepted + 1]]
    /\ UNCHANGED <<data_store, data_queue, wire, ws, loc, rd, view, sent, received,
                   calls, attempts, failures, drone, emitted, drawn>>

\* line 114: data = drone.generate_data()
handler_generate_data(c, N, ticks) ==
    /\ server[c].pc = "L114"
    /\ server[c].drone.time_offset < ticks
    /\ \E z \in Draws(N, server[c].drone) :
          server' = [server EXCEPT ![c] =
                        [@ EXCEPT !.pc = "L115",
                                  !.drone = Advance(server[c].drone, z),
                                  !.data = Sample(Advance(server[c].drone, z))]]
    /\ UNCHANGED <<data_store, data_queue, wire, ws, loc, rd, view, sent, received,
                   calls, attempts, failures, drone, emitted, drawn>>

\* line 115: await websocket.send(json.dumps(data))
websocket_send(c) ==
    /\ server[c].pc = "L115"
    /\ server' = [server EXCEPT ![c] =
                     [@ EXCEPT !.pc = "L116",
                               !.out = Append(@, json_dumps(server[c].data))]]
    /\ UNCHANGED <<data_store, data_queue, wire, ws, loc, rd, view, sent, received,
                   calls, attempts, failures, drone, emitted, drawn>>

\* lines 115, 117-118: send raises ConnectionClosed and the handler returns
handler_connection_closed(c) ==
    /\ server[c].pc = "L115"
    /\ server' = [server EXCEPT ![c] =
                     [NoHandler EXCEPT !.accepted = server[c].accepted]]
    /\ UNCHANGED <<data_store, data_queue, wire, ws, loc, rd, view, sent, received,
                   calls, attempts, failures, drone, emitted, drawn>>

\* line 116: await asyncio.sleep(UPDATE_INTERVAL)
handler_sleep(c) ==
    /\ server[c].pc = "L116"
    /\ server' = [server EXCEPT ![c] = [@ EXCEPT !.pc = "L114"]]
    /\ UNCHANGED <<data_store, data_queue, wire, ws, loc, rd, view, sent, received,
                   calls, attempts, failures, drone, emitted, drawn>>

(***************************************************************************)
(* Construction of the store with an arbitrary argument                    *)
(***************************************************************************)
CapacityArgs == -1 .. StoreCapacity

construct ==
    /\ data_store = Unbuilt
    /\ \E max_points \in CapacityArgs : data_store' = DataStore__init__(max_points)
    /\ UNCHANGED <<data_queue, wire, ws, loc, rd, view, sent, received,
                   calls, attempts, failures, drone, emitted, drawn, server>>

(***************************************************************************)
(* Specifications                                                          *)
(***************************************************************************)
Workers == {1, 2}

\* the page before any callback has returned
InitialView ==
    [n_intervals |-> 0, status |-> None, battery |-> None, gps |-> "unset",
     imu |-> <<>>, alt_temp |-> <<>>, telemetry |-> None, orientation |-> None]

InitCommon ==
    /\ data_queue = <<>>
    /\ wire = <<>>
    /\ ws = [pc |-> "connect", delay |-> 0, slept |-> 0]
    /\ loc = [w \in Workers |-> IdleLocals]
    /\ rd = [pc |-> "idle"]
    /\ view = InitialView
    /\ sent = <<>>
    /\ received = <<>>
    /\ calls = <<>>
    /\ attempts = 0
    /\ failures = 0
    /\ drone = DroneDataGenerator__init__
    /\ emitted = None
    /\ drawn = None
    /\ server = [c \in Connections |-> NoHandler]

Init ==
    /\ data_store = DataStore__init__(MAX_DATA_POINTS)
    /\ InitCommon

\* the values of n_intervals the callback is entered with
TickArgs == {0, 1}

\* the dashboard with one refresh callback at a time and any peer
Next ==
    \/ process_queue(1, TickArgs, FALSE)
    \/ while_not_empty(1)
    \/ get_nowait(1)
    \/ add_data_step(1)
    \/ connect
    \/ connect_refused
    \/ recv
    \/ connection_closed
    \/ sleep_tick
    \/ sleep_done
    \/ transmit(FrameKinds, MaxPeerFrames)

Spec == Init /\ [][Next]_vars


\* well-formed frames only, one add_data at a time
NextSeq ==
    \/ process_queue(1, {0}, FALSE)
    \/ while_not_empty(1)
    \/ get_nowait(1)
    \/ add_data_step(1)
    \/ connect
    \/ recv
    \/ transmit({"ok"}, MaxFrames)

SpecSeq == Init /\ [][NextSeq]_vars

\* one add_data at a time, with view callbacks running beside it
NextRead ==
    \/ process_queue(1, {0}, FALSE)
    \/ while_not_empty(1)
    \/ get_nowait(1)
    \/ add_data_step(1)
    \/ connect
    \/ recv
    \/ transmit({"ok"}, MaxPeerFrames)
    \/ update_gps_map
    \/ gps_center_lat
    \/ gps_center_lon
    \/ update_imu_chart
    \/ imu_time_strings
    \/ imu_trace

SpecRead == Init /\ [][NextRead]_vars

\* two refresh callbacks at overlapping times
NextPar ==
    \/ \E w \in Workers : process_queue(w, {0}, FALSE)
    \/ \E w \in Workers : while_not_empty(w)
    \/ \E w \in Workers : get_nowait(w)
    \/ \E w \in Workers : add_data_step(w)
    \/ connect
    \/ recv
    \/ transmit({"ok"}, MaxParFrames)

InitPar ==
    /\ data_store = DataStore__init__(ParCapacity)
    /\ InitCommon

SpecPar == InitPar /\ [][NextPar]_vars

\* two refresh ticks at overlapping times, each followed by its view callback
NextTick ==
    \/ \E w \in Workers : process_queue(w, {0}, TRUE)
    \/ \E w \in Workers : while_not_empty(w)
    \/ \E w \in Workers : get_nowait(w)
    \/ \E w \in Workers : add_data_step(w)
    \/ \E w \in Workers : update_connection_status(w)
    \/ connect
    \/ recv
    \/ transmit({"ok"}, MaxTickFrames)

SpecTick == InitPar /\ [][NextTick]_vars

\* the outputs of the view callbacks, and those that show a rendering
ViewOutputs ==
    {"status", "battery", "orientation", "gps", "imu", "alt_temp", "telemetry"}

Rendered == {f \in ViewOutputs : view[f] # InitialView[f]}

\* the callback of output f may start: at most MaxRenders outputs get rendered
MayRender(f) == Cardinality(Rendered \ {f}) < MaxRenders

\* the receiving thread, one refresh callback and every view callback
NextViews ==
    \/ process_queue(1, {0}, TRUE)
    \/ while_not_empty(1)
    \/ get_nowait(1)
    \/ add_data_step(1)
    \/ connect
    \/ recv
    \/ transmit({"attitude"}, MaxViewFrames)
    \/ MayRender("status") /\ update_connection_status(1)
    \/ MayRender("battery") /\ update_battery_indicator
    \/ MayRender("orientation") /\ update_orientation_display
    \/ MayRender("gps") /\ update_gps_map
    \/ gps_center_lat
    \/ gps_center_lon
    \/ MayRender("imu") /\ update_imu_chart
    \/ imu_time_strings
    \/ imu_trace
    \/ MayRender("alt_temp") /\ update_alt_temp_chart
    \/ MayRender("telemetry") /\ update_telemetry_data

SpecViews == InitPar /\ [][NextViews]_vars

\* one refresh callback at a time and a peer that never stops sending; both
\* threads keep being scheduled
NextStream ==
    \/ process_queue(1, {0}, FALSE)
    \/ while_not_empty(1)
    \/ get_nowait(1)
    \/ add_data_untraced(1)
    \/ connect
    \/ recv_from_stream

SpecStream ==
    /\ Init
    /\ [][NextStream]_vars
    /\ WF_vars(while_not_empty(1) \/ get_nowait(1) \/ add_data_untraced(1))
    /\ WF_vars(connect)
    /\ WF_vars(recv_from_stream)

\* a store constructed with any capacity argument
InitCtor ==
    /\ data_store = Unbuilt
    /\ InitCommon

NextCtor ==
    \/ construct
    \/ NextSeq

SpecCtor == InitCtor /\ [][NextCtor]_vars

\* the generator alone
Quiet == [v |-> {0}, temp |-> {0}, roll |-> {0}, pitch |-> {0}, yaw |-> {0},
          alt |-> {0}, resample |-> {FALSE}]

\* the generator alone, with the battery noise
NextGen == generate_data([Quiet EXCEPT !.v = VoltageNoise], MaxGenTicks)

SpecGen == Init /\ [][NextGen]_vars

\* the generator alone, with two yaw draws inside [-0.5, 0.5]
YawNoise == {-4, 0}

NextYaw == generate_data([Quiet EXCEPT !.yaw = YawNoise], MaxYawTicks)

SpecYaw == Init /\ [][NextYaw]_vars

\* the generator alone, with every random call at the two ends of its range
\* and the resample taken or not
AllNoise == [v |-> {-10, 10}, temp |-> {-10, 10}, roll |-> {-2000, 2000},
             pitch |-> {-2000, 2000}, yaw |-> {-500, 500}, alt |-> {-1000, 1000},
             resample |-> BOOLEAN]

NextDrone == generate_data(AllNoise, MaxDroneTicks)

SpecDrone == Init /\ [][NextDrone]_vars


\* the orientation callback alone, over a store that holds one sample whose
\* attitude is any combination of quarter turns, or holds none
PoseAngles == {-90, 0, 90, 180, 270}

PoseSample(roll, pitch, yaw) ==
    [MkSample(1) EXCEPT !.imu = [roll |-> roll, pitch |-> pitch, yaw |-> yaw]]

RECURSIVE RunAddData(_, _)
RunAddData(st, l) ==
    IF InAddData(l)
    THEN LET r == add_data(st, l) IN RunAddData(r.st, r.l)
    ELSE st

InitPose ==
    /\ \/ data_store = DataStore__init__(MAX_DATA_POINTS)
       \/ \E roll \in PoseAngles, pitch \in PoseAngles, yaw \in PoseAngles :
             data_store =
                 RunAddData(DataStore__init__(MAX_DATA_POINTS),
                            [IdleLocals EXCEPT !.pc = "L41",
                                               !.data = PoseSample(roll, pitch, yaw)])
    /\ InitCommon

NextPose == update_orientation_display

SpecPose == InitPose /\ [][NextPose]_vars


\* the transmitter with two client connections that come and go
NextServer ==
    \/ \E c \in Connections : transmit_data(c)
    \/ \E c \in Connections :
          handler_generate_data(c, [Quiet EXCEPT !.v = VoltageNoise], MaxServerTicks)
    \/ \E c \in Connections : websocket_send(c)
    \/ \E c \in Connections : handler_connection_closed(c)
    \/ \E c \in Connections : handler_sleep(c)

SpecServer == Init /\ [][NextServer]_vars

(***************************************************************************)
(* Properties                                                              *)
(***************************************************************************)
\* the element a well-formed message d contributes to the j-th series
FieldOf(d, j) ==
    IF j = 1 THEN [datetime |-> d.timestamp.t] ELSE d[Path(j)[1]][Path(j)[2]]

Series(j) == data_store[SeriesNames[j]]

NoAddInProgress == \A w \in Workers : ~InAddData(loc[w])

WellFormed(d) == d \in {MkSample(k) : k \in 1 .. MaxFrames + 1}

\* the j-th series of a store of capacity n that holds the last n of msgs
WindowOf(msgs, n, j) ==
    LET m == Len(msgs)
        c == Min(n, m)
    IN  [i \in 1 .. c |-> FieldOf(msgs[m - c + i], j)]

SameLength == \A j \in 1 .. NSeries : Len(Series(j)) = Len(data_store.timestamps)

\* C1: after m sequential adds of well-formed samples every series holds, in
\* arrival order, its field of the last min(N, m) samples added
C1_SlidingWindow ==
    NoAddInProgress =>
        \A j \in 1 .. NSeries :
            Series(j) = WindowOf(calls, data_store.max_points, j)

C1_Evicted ==
    /\ NoAddInProgress
    /\ Len(calls) = data_store.max_points + 2
    /\ Len(data_store.timestamps) = data_store.max_points
    /\ data_store.roll[1] = <<"roll", 3>>

\* C2: at every instant a reader can observe, all ten series have the same
\* length, and a chart built by update_imu_chart has traces of one length
C2_NoTornRead ==
    /\ SameLength
    /\ \A i \in 1 .. Len(view.imu) : view.imu[i] = view.imu[1]

\* C3: once all adds in progress have finished, the series have equal length
\* and the i-th elements of all series come from one and the same sample
C3_IndexAligned ==
    NoAddInProgress =>
        /\ SameLength
        /\ \A j \in 2 .. NSeries : \A i \in 1 .. Len(Series(j)) :
              i <= Len(data_store.timestamps) =>
                  Series(j)[i][2] = data_store.timestamps[i].datetime

\* C4: latest_data is None with every series empty, or it is the sample added
\* last and the last element of each series is its field; the latitude[-1]
\* and longitude[-1] reads of update_gps_map do not fail
C4_LatestMatchesSeries ==
    /\ \/ /\ data_store.latest_data = None
          /\ \A j \in 1 .. NSeries : Series(j) = <<>>
       \/ /\ data_store.latest_data # None
          /\ calls # <<>>
          /\ data_store.latest_data = calls[Len(calls)]
          /\ \A j \in 1 .. NSeries :
                /\ Series(j) # <<>>
                /\ Series(j)[Len(Series(j))] = FieldOf(data_store.latest_data, j)
    /\ view.gps # "IndexError"

\* C5: add_data of a malformed message leaves the store as it was: between
\* adds the store is what the well-formed messages alone would have made it
C5_RejectedLeavesStore ==
    NoAddInProgress =>
        LET good == SelectSeq(calls, WellFormed)
        IN  /\ \A j \in 1 .. NSeries :
                  Series(j) = WindowOf(good, data_store.max_points, j)
            /\ data_store.latest_data =
                  IF good = <<>> THEN None ELSE good[Len(good)]

\* C6: a malformed message is discarded alone: every well-formed message the
\* peer has sent is in flight, queued, held by process_queue or was passed to
\* add_data
C6_OnlyMalformedDiscarded ==
    \A n \in 1 .. Len(sent) :
        (sent[n].valid /\ WellFormed(sent[n].body)) =>
            \/ \E i \in 1 .. Len(wire) : wire[i] = sent[n]
            \/ \E i \in 1 .. Len(data_queue) : data_queue[i] = sent[n].body
            \/ \E w \in Workers : loc[w].data = sent[n].body
            \/ \E i \in 1 .. Len(calls) : calls[i] = sent[n].body

\* C7: no store with capacity <= 0 exists
C7_CapacityPositive ==
    data_store # Unbuilt => data_store.max_points >= 1

\* C8: every failure is followed by a sleep of the fixed 5 seconds and then by
\* exactly one new connection attempt; the client never leaves its loop
C8_FixedDelayReconnect ==
    /\ ws.pc # "exited"
    /\ attempts = failures + (IF ws.pc = "recv" THEN 1 ELSE 0)
    /\ ws.pc = "sleep" => ws.delay = RECONNECT_DELAY
    /\ (ws.pc = "connect" /\ failures > 0) =>
           (ws.delay = RECONNECT_DELAY /\ ws.slept >= RECONNECT_DELAY)

C8_ThreeFailures ==
    /\ failures = 3
    /\ attempts = 4
    /\ ws.pc = "recv"
    /\ ws.slept = RECONNECT_DELAY

\* C9: the messages are passed to add_data in the order in which they were
\* received, none twice and none skipped
C9_AddedInArrivalOrder ==
    /\ Len(calls) <= Len(received)
    /\ \A i \in 1 .. Len(calls) : calls[i] = received[i]

\* C10: the generator's voltage stays in [8.0, 12.0], internally and as
\* emitted, and the emitted percentage stays in [0, 100]
C10_BatteryInRange ==
    /\ drone.battery_voltage >= BATTERY_MIN
    /\ drone.battery_voltage <= BATTERY_MAX
    /\ emitted # None =>
          /\ emitted.battery.voltage >= 800
          /\ emitted.battery.voltage <= 1200
          /\ emitted.battery.percentage >= 0
          /\ emitted.battery.percentage <= 1000

C10_Drained ==
    /\ emitted # None
    /\ drone.battery_voltage = BATTERY_MIN
    /\ emitted.battery.voltage = 800
    /\ emitted.battery.percentage = 0

\* C11: after every tick yaw is at least 0 and strictly less than 360, in the
\* generator and in the emitted sample
C11_YawBelowFullTurn ==
    /\ drone.yaw >= 0
    /\ drone.yaw < FULL_TURN
    /\ emitted # None =>
          /\ emitted.imu.yaw >= 0
          /\ emitted.imu.yaw < 36000

\* C12 as stated: the emitted percentage is clamp((voltage - 8.0) / 4.0 * 100,
\* 0, 100) rounded to 1 decimal of the voltage the same sample carries
C12_PercentageOfSampleVoltage ==
    emitted # None =>
        emitted.battery.percentage =
            RoundDiv(Min(Max(emitted.battery.voltage * 10 - 8000, 0), 4000), 4)

\* C12 as amended: the emitted percentage is (v - 8.0) / 4.0 * 100 rounded to
\* 1 decimal, within [0, 100], of the generator's unrounded voltage v
C12_PercentageOfInternalVoltage ==
    emitted # None =>
        LET p == emitted.battery.percentage
            x == drone.battery_voltage - 8000
        IN  /\ p >= 0
            /\ p <= 1000
            /\ 4 * p - 2 <= x
            /\ x <= 4 * p + 2

C12_SampleVoltageGivesAnother ==
    /\ emitted # None
    /\ emitted.battery.voltage = 1199
    /\ emitted.battery.percentage = 997
    /\ RoundDiv(emitted.battery.voltage * 10 - 8000, 4) = 998

\* C13: the emitted status is one of the five states, signal_strength is the
\* fixed lookup of that status, and a tick that draws no resample keeps the
\* status
C13_StatusAndStrength ==
    [][emitted' # None =>
          LET c == emitted'.connection
          IN  /\ c.status \in {"Excellent", "Good", "Fair", "Poor", "No Signal"}
              /\ c.status = "Excellent" => c.signal_strength = 95
              /\ c.status = "Good"      => c.signal_strength = 75
              /\ c.status = "Fair"      => c.signal_strength = 50
              /\ c.status = "Poor"      => c.signal_strength = 25
              /\ c.status = "No Signal" => c.signal_strength = 0
              /\ (drone'.time_offset # drone.time_offset /\ ~drawn'.resample) =>
                     /\ c.status = drone.connection_health
                     /\ emitted # None => c.status = emitted.connection.status]_vars

C13_KeptPoor ==
    /\ emitted # None
    /\ drone.time_offset >= 2
    /\ ~drawn.resample
    /\ emitted.connection.status = "Poor"
    /\ emitted.connection.signal_strength = 25

\* C20: the state after a tick is computed from the previous unrounded state,
\* the elapsed time and the values drawn; no rounded value is written back
C20_RoundingIsCosmetic ==
    [][drone'.time_offset # drone.time_offset =>
          LET x == drone.battery_voltage - 1 + drawn'.v
              t == drone.time_offset + 1
          IN  /\ drone'.time_offset = t
              /\ drone'.battery_voltage =
                    IF x > 12000 THEN 12000 ELSE IF x < 8000 THEN 8000 ELSE x
              /\ drone'.temperature = drone.temperature + drawn'.temp
              /\ drone'.yaw = (drone.yaw + 1000 + drawn'.yaw) % 360000
              /\ drone'.roll.t = t /\ drone'.roll.noise = drawn'.roll
              /\ drone'.pitch.t = t /\ drone'.pitch.noise = drawn'.pitch
              /\ drone'.altitude.t = t /\ drone'.altitude.noise = drawn'.alt
              /\ drone'.latitude.terms = t /\ drone'.latitude.start = drone.latitude.start
              /\ drone'.longitude.terms = t /\ drone'.longitude.start = drone.longitude.start
              /\ drone'.connection_health =
                    IF drawn'.resample THEN drawn'.pick ELSE drone.connection_health]_vars

C20_UnroundedKept ==
    /\ emitted # None
    /\ drone.time_offset >= 2
    /\ emitted.battery.voltage * 10 # drone.battery_voltage
    /\ emitted.sensors.temperature * 10 = drone.temperature
    /\ emitted.imu.yaw * 10 = drone.yaw

\* the attitude the orientation figure was drawn from, and the figure
Attitude == data_store.latest_data.imu

Posed ==
    /\ data_store.latest_data # None
    /\ view.orientation # None
    /\ view.orientation # EmptyFigure

AtAttitude(roll, pitch, yaw) ==
    Attitude.roll = roll /\ Attitude.pitch = pitch /\ Attitude.yaw = yaw

\* C14: with roll = pitch = yaw = 0 every body and arm vertex is unchanged,
\* and with yaw = 90, roll = pitch = 0 the front-arm tips (0, arm_length,
\* +/-thickness) are turned a quarter turn counterclockwise about z, to
\* (-arm_length, 0, +/-thickness).
C14_IdentityAndQuarterYaw ==
    Posed =>
        /\ AtAttitude(0, 0, 0) =>
              /\ view.orientation.body = body_points
              /\ view.orientation.arm_front = arm_front
              /\ view.orientation.arm_back = arm_back
              /\ view.orientation.arm_right = arm_right
              /\ view.orientation.arm_left = arm_left
        /\ AtAttitude(0, 0, 90) =>
              /\ view.orientation.arm_front[3] = Point(-arm_length, 0, thickness)
              /\ view.orientation.arm_front[4] = Point(-arm_length, 0, -thickness)

\* C14 witness: a figure drawn at yaw = 90 whose front-arm tip has moved
C14_QuarterYawDrawn ==
    /\ Posed
    /\ AtAttitude(0, 0, 90)
    /\ view.orientation.arm_front[3] # arm_front[3]

\* the textbook rotations by k quarter turns about x, y and z, on column
\* vectors
QuarterCos(k) == Num(<<1, 0, -1, 0>>[(k % 4) + 1])

QuarterSin(k) == Num(<<0, 1, 0, -1>>[(k % 4) + 1])

AboutAxis(axis, k) ==
    CASE axis = "x" -> << <<Num(1), Num(0), Num(0)>>,
                          <<Num(0), QuarterCos(k), Neg(QuarterSin(k))>>,
                          <<Num(0), QuarterSin(k), QuarterCos(k)>> >>
      [] axis = "y" -> << <<QuarterCos(k), Num(0), QuarterSin(k)>>,
                          <<Num(0), Num(1), Num(0)>>,
                          <<Neg(QuarterSin(k)), Num(0), QuarterCos(k)>> >>
      [] axis = "z" -> << <<QuarterCos(k), Neg(QuarterSin(k)), Num(0)>>,
                          <<QuarterSin(k), QuarterCos(k), Num(0)>>,
                          <<Num(0), Num(0), Num(1)>> >>

QuarterTurns(axis) ==
    CASE axis = "x" -> Attitude.roll \div 90
      [] axis = "y" -> Attitude.pitch \div 90
      [] axis = "z" -> Attitude.yaw \div 90

\* the product of the three rotations in the order given, leftmost first
InOrder(order) ==
    MatDot(MatDot(AboutAxis(order[1], QuarterTurns(order[1])),
                  AboutAxis(order[2], QuarterTurns(order[2]))),
           AboutAxis(order[3], QuarterTurns(order[3])))

ZYX == <<"z", "y", "x">>

OtherOrders ==
    {<<"z", "x", "y">>, <<"y", "z", "x">>, <<"y", "x", "z">>,
     <<"x", "z", "y">>, <<"x", "y", "z">>}

ModelPoints == body_points \o arm_front \o arm_back \o arm_right \o arm_left

DrawnPoints ==
    view.orientation.body \o view.orientation.arm_front \o view.orientation.arm_back
        \o view.orientation.arm_right \o view.orientation.arm_left

\* M applied to every body and arm vertex as a column vector
Turned(M) ==
    [k \in 1 .. Len(ModelPoints) |->
        <<Dot3(M[1], ModelPoints[k]), Dot3(M[2], ModelPoints[k]),
          Dot3(M[3], ModelPoints[k])>>]

HalfTurnCount ==
    Cardinality({axis \in {"x", "y", "z"} : QuarterTurns(axis) % 4 = 2})

NonZeroCount ==
    Cardinality({axis \in {"x", "y", "z"} : QuarterTurns(axis) % 4 # 0})

DiffersFromEveryOtherOrder ==
    \A order \in OtherOrders : DrawnPoints # Turned(InOrder(order))

\* C15: the matrix applied to every body and arm vertex is
\* Rz(yaw) * Ry(pitch) * Rx(roll) on column vectors; for multiples of 90
\* degrees with at least two of them non-zero the result equals this
\* composition and differs from the result of any other composition order.
C15_DiffersFromAnyOtherOrder ==
    (Posed /\ NonZeroCount >= 2) =>
        /\ DrawnPoints = Turned(InOrder(ZYX))
        /\ DiffersFromEveryOtherOrder

\* C15 as amended: for multiples of 90 degrees the result equals
\* Rz(yaw) * Ry(pitch) * Rx(roll) applied to column vectors, and it differs
\* from the result of every other composition order exactly when all three
\* angles are non-zero and at most one of them is a half turn.
C15_ZYXAndWhenOrderMatters ==
    Posed =>
        /\ DrawnPoints = Turned(InOrder(ZYX))
        /\ DiffersFromEveryOtherOrder <=> (NonZeroCount = 3 /\ HalfTurnCount <= 1)

\* C15 witness: a figure drawn at three quarter turns, which no other order
\* produces
C15_OrderMatters ==
    /\ Posed
    /\ AtAttitude(90, 90, 90)
    /\ DiffersFromEveryOtherOrder

\* C16: for every roll, pitch and yaw the ring vertices and the two
\* reference axes of the figure are their unrotated definitions; only the
\* body and the four arms are transformed.
C16_ReferenceNotRotated ==
    Posed =>
        /\ view.orientation.ring =
              [k \in 1 .. 37 |->
                  <<[times |-> 96, cos |-> k - 1, of |-> 36],
                    [times |-> 96, sin |-> k - 1, of |-> 36], Num(0)>>]
        /\ view.orientation.forward = <<Point(0, 0, 0), Point(0, 60, 0)>>
        /\ view.orientation.right = <<Point(0, 0, 0), Point(60, 0, 0)>>
        /\ DrawnPoints = Turned(InOrder(ZYX))

\* C16 witness: a figure whose body is turned while its ring is not
C16_BodyTurnedRingFixed ==
    /\ Posed
    /\ view.orientation.body # body_points
    /\ view.orientation.ring = ring_points

\* the client is between a failure of the connection and the next successful
\* connect
Outage == failures > 0 /\ ws.pc \in {"sleep", "connect"}

\* C17: during an outage window no sample is delivered to the store: the
\* series and latest_data stay as they were when the outage began.
C17_StoreFrozenDuringOutage ==
    [][(Outage /\ Outage') => data_store' = data_store]_vars

\* add_data has been called with s and has returned
Added(s) ==
    /\ \E k \in 1 .. Len(calls) : calls[k] = s
    /\ \A w \in Workers : ~(InAddData(loc[w]) /\ loc[w].data = s)

\* C18: on each refresh tick the drain comes before the render: every sample
\* that was queued when the tick fired has been added to the store before a
\* view callback of that tick reads the store.
C18_DrainBeforeRender ==
    \A w \in Workers :
        (loc[w].pc = "idle" /\ loc[w].tick # None) =>
            \A k \in 1 .. Len(loc[w].tick.queued) : Added(loc[w].tick.queued[k])

\* C19: at the loop test with an empty queue process_queue returns at once:
\* its value is the n it was given and no series, latest_data or queue entry
\* changes.
C19_EmptyDrainReturnsN ==
    [][(loc[1].pc = "L168" /\ data_queue = <<>> /\ loc'[1] # loc[1]) =>
          /\ loc'[1].pc = "idle"
          /\ loc'[1].exc = "none"
          /\ view'.n_intervals = loc[1].n
          /\ data_store' = data_store
          /\ data_queue' = data_queue]_vars

\* C19 witness: process_queue entered with n = 1 has returned 1 and add_data
\* was never called
C19_ReturnedWithoutAdding ==
    /\ loc[1].pc = "idle"
    /\ view.n_intervals = 1
    /\ calls = <<>>
    /\ data_store = DataStore__init__(MAX_DATA_POINTS)

\* the step is one statement of add_data run by invocation w of process_queue
AddDataStatement(w) ==
    /\ InAddData(loc[w])
    /\ data_store' = add_data(data_store, loc[w]).st
    /\ loc'[w] = AfterStep(add_data(data_store, loc[w]).l)

\* C21: the store is changed only by add_data, called only from
\* process_queue: the receiving thread only puts messages on the queue, no
\* view callback changes a series, latest_data or max_points, and add_data is
\* entered only with the message process_queue took off the queue.
C21_OnlyAddDataMutates ==
    [][/\ data_store' # data_store => \E w \in Workers : AddDataStatement(w)
       /\ data_store'.max_points = data_store.max_points
       /\ (rd' # rd \/ view' # view) => data_store' = data_store
       /\ (ws' # ws \/ wire' # wire \/ received' # received) =>
              (data_store' = data_store /\ Len(data_queue') >= Len(data_queue))
       /\ calls' # calls =>
              \E w \in Workers : loc[w].pc = "L41" /\ calls' = Append(calls, loc[w].data)
      ]_vars

\* C21 witness: the telemetry values show the sample that add_data has
\* stored
C21_StoredSampleShown ==
    /\ data_store.latest_data # None
    /\ NoAddInProgress
    /\ view.telemetry = data_store.latest_data
    /\ Len(data_store.latitude) = 1

\* C22: every invocation of process_queue terminates, even though the
\* receiving thread keeps putting samples on the queue while the loop is
\* running.
C22_DrainTerminates == (loc[1].pc # "idle") ~> (loc[1].pc = "idle")

Open(c) == server[c].pc # "closed"

\* C23: each connection owns its generator, created in the initial state
\* (voltage 12.0, yaw 0, time offset 0, status Excellent), also after a
\* reconnect; a tick of one connection leaves the generator of the other
\* alone; each loop iteration advances the generator exactly once and sends
\* exactly the sample of that advance.
C23_OwnGeneratorPerConnection ==
    [][\A c \in Connections :
          /\ (~Open(c) /\ server'[c].pc # "closed") =>
                /\ server'[c].drone.battery_voltage = 12000
                /\ server'[c].drone.yaw = 0
                /\ server'[c].drone.time_offset = 0
                /\ server'[c].drone.connection_health = "Excellent"
                /\ server'[c].drone = DroneDataGenerator__init__
                /\ server'[c].out = <<>>
          /\ server'[c] # server[c] =>
                \A d \in Connections \ {c} : server'[d] = server[d]
          /\ server'[c].accepted # server[c].accepted =>
                (~Open(c) /\ server'[c].pc # "closed")
          /\ (Open(c) /\ server'[c].pc # "closed") =>
                /\ server'[c].drone # server[c].drone =>
                      /\ server[c].pc = "L114"
                      /\ server'[c].drone.time_offset = server[c].drone.time_offset + 1
                      /\ server'[c].drone.time_offset = Len(server[c].out) + 1
                      /\ server'[c].out = server[c].out
                /\ server'[c].out # server[c].out =>
                      /\ server'[c].drone = server[c].drone
                      /\ server'[c].out =
                            Append(server[c].out, json_dumps(Sample(server[c].drone)))
                      /\ Len(server'[c].out) = server[c].drone.time_offset
      ]_vars

\* C23 witness: connection 1 has reconnected and sent its first sample again
\* while connection 2 is two samples into its own stream
C23_RestartedBesideAnother ==
    /\ server[1].accepted = 2
    /\ server[1].pc = "L116"
    /\ Len(server[1].out) = 1
    /\ server[1].out[1].body.timestamp = IsoString(1)
    /\ Open(2)
    /\ Len(server[2].out) = 2
    /\ server[2].drone.battery_voltage # server[1].drone.battery_voltage

=============================================================================
